---- MODULE Spec2Model ----
(***************************************************************************)
(* Room booking and shift checklists: the booking store with its conflict  *)
(* check, shifts and their tasks, and the notification log, as implemented *)
(* by the Express routes over DatabaseStorage or MemStorage and by the     *)
(* Firestore client library with its Cloud Function triggers.              *)
(***************************************************************************)
EXTENDS Integers, Sequences, FiniteSets, TLC

\* ---------------------------------------------------------------- bounds
MaxTime == 2
NumRooms == 2
MaxBookings == 2
MaxNotifications == 6
MaxTriggers == 1
MaxShifts == 2
MaxTemplates == 2
MaxTasks == 4

Times == 0..MaxTime
RoomIds == 1..NumRooms

\* ------------------------------------------------------- program constants
Statuses == {"pending", "approved", "rejected", "completed", "cancelled"}
Roles == {"player", "employee", "supervisor"}

\* a request body without the field
Missing == -1

\* the registered users the runs start from: ids 1 and 2
SeedUsers == <<[role |-> "player"], [role |-> "supervisor"]>>

SlotUnavailable == "Selected time slot is not available"
ZodError == "ZodError"
InvalidStatus == "Invalid status"
BookingNotFound == "Booking not found"
NoPermission == "You do not have permission to access this resource"
InvalidEmployee == "Invalid employee ID"
ShiftNotFound == "Shift not found"
ChecklistFieldsRequired == "Task ID and completion status are required"
TaskNotFound == "Task not found"
NoTaskPermission == "You do not have permission to update this task"
NotificationNotFound == "Notification not found"
InternalError == "Internal server error"
NoError == "none"

\* a stored null
Null == -2

\* the users the shift runs start from: ids 1 to 4
StaffUsers == <<[role |-> "player"], [role |-> "supervisor"],
               [role |-> "employee"], [role |-> "employee"]>>

Categories == {"computer_organization", "cleaning"}

VARIABLES backend, users, bookings, notifications, inflight, response,
          shifts, tasks, templates, inflightTasks, triggers, handlers, rooms

\* handlers: the booking requests between their conflict check and their
\* last write; rooms: the rooms collection, by storage key
\* the shift collections, which the booking operations leave alone
shiftStore == <<shifts, tasks, templates, inflightTasks>>

vars == <<backend, users, bookings, notifications, inflight, response,
          shiftStore, triggers, handlers, rooms>>

UserIds == 1..Len(users)

\* the client opens the booking page to players only
Bookers == {i \in UserIds : users[i].role = "player"}

\* -------------------------------------------------------------- helpers
Respond(status, error) ==
    response' = [status |-> status, error |-> error]

\* authorize(roles): the role carried by the token must be one of roles
authorize(roles, actor) == users[actor].role \in roles

\* storage.createNotification: isRead false, appended under the next id
createNotification(userId, type) ==
    [userId |-> userId, type |-> type, isRead |-> FALSE]

\* (await storage.getUsers()).filter(u => u.role === "supervisor"), by id
supervisors ==
    SelectSeq([i \in 1..Len(users) |-> i],
              LAMBDA i : users[i].role = "supervisor")

\* the three-clause time overlap test shared by both conflict checks
TimeOverlap(requestedStart, requestedEnd, bookingStart, bookingEnd) ==
    \/ (requestedStart >= bookingStart /\ requestedStart < bookingEnd)
    \/ (requestedEnd > bookingStart /\ requestedEnd <= bookingEnd)
    \/ (requestedStart <= bookingStart /\ requestedEnd >= bookingEnd)

getBookingsByRoom(roomId) ==
    {i \in DOMAIN bookings : bookings[i].roomId = roomId}

\* the callback of existingBookings.some(...) in POST /api/bookings
conflictsWith(booking, requestedStart, requestedEnd) ==
    /\ TimeOverlap(requestedStart, requestedEnd,
                   booking.startTime, booking.endTime)
    /\ booking.status # "rejected"
    /\ booking.status # "cancelled"

hasConflict(roomId, requestedStart, requestedEnd) ==
    \E i \in getBookingsByRoom(roomId) :
        conflictsWith(bookings[i], requestedStart, requestedEnd)

\* the Firestore query of checkBookingConflicts and its some(...) callback
fsConflictsWith(booking, roomId, start, end) ==
    /\ booking.roomId = roomId
    /\ booking.status \in {"pending", "approved"}
    /\ TimeOverlap(start, end, booking.startTime, booking.endTime)

checkBookingConflicts(roomId, start, end) ==
    \E i \in DOMAIN bookings : fsConflictsWith(bookings[i], roomId, start, end)

\* BookingCalendar: the page hands it the bookings of the selected room, and
\* a slot is booked when some(...) finds one of them over it
isBooked(roomId, startTime, endTime) ==
    \E i \in {j \in DOMAIN bookings : bookings[j].roomId = roomId} :
        /\ TimeOverlap(startTime, endTime,
                       bookings[i].startTime, bookings[i].endTime)
        /\ bookings[i].status # "rejected"
        /\ bookings[i].status # "cancelled"

newBooking(userId, roomId, startTime, endTime) ==
    [userId |-> userId, roomId |-> roomId, startTime |-> startTime,
     endTime |-> endTime, status |-> "pending", qrCode |-> TRUE]

\* the notifications one booking creation writes for the supervisors
supervisorNotifications ==
    [k \in 1..Len(supervisors) |-> createNotification(supervisors[k], "booking")]

\* the requests are handled while the log has room for their writes; a
\* trigger that a handled request fired always runs
HasSpace(n) == Len(notifications) + Len(inflight) + n <= MaxNotifications

\* the rooms collection: the record stored under each key
SeedRooms == [k \in RoomIds |-> [id |-> k, isActive |-> TRUE]]

\* the sequence without its k-th element
Remove(seq, k) == SubSeq(seq, 1, k - 1) \o SubSeq(seq, k + 1, Len(seq))

\* ------------------------------------------------------------- Init
Init ==
    /\ backend \in {"db", "firestore"}
    /\ users = SeedUsers
    /\ bookings = <<>>
    /\ notifications = <<>>
    /\ inflight = <<>>
    /\ response = [status |-> "none", error |-> NoError]
    /\ shifts = <<>>
    /\ tasks = <<>>
    /\ templates = <<>>
    /\ inflightTasks = <<>>
    /\ triggers = <<>>
    /\ handlers = <<>>
    /\ rooms = SeedRooms

\* --------------------------------------------- POST /api/bookings (server)
\* POST /api/bookings whose conflict branch answers 400 and goes on writing
PostBookingNoReturn(actor, roomId, startTime, endTime) ==
    /\ backend = "db"
    /\ UNCHANGED <<rooms, handlers, backend, users, inflight, shiftStore, triggers>>
    /\ IF startTime = Missing \/ endTime = Missing
       THEN /\ Respond("400", ZodError)
            /\ UNCHANGED <<bookings, notifications>>
       ELSE /\ Len(bookings) < MaxBookings
            /\ HasSpace(Len(supervisors) + 1)
            /\ bookings' = Append(bookings,
                                  newBooking(actor, roomId, startTime, endTime))
            /\ notifications' = notifications \o supervisorNotifications
                                \o <<createNotification(actor, "booking")>>
            /\ IF hasConflict(roomId, startTime, endTime)
               THEN Respond("400", SlotUnavailable)
               ELSE Respond("201", NoError)

PostBooking(actor, roomId, startTime, endTime) ==
    /\ backend = "db"
    /\ UNCHANGED <<rooms, handlers, backend, users, inflight, shiftStore, triggers>>
    /\ IF startTime = Missing \/ endTime = Missing
       THEN /\ Respond("400", ZodError)
            /\ UNCHANGED <<bookings, notifications>>
       ELSE IF hasConflict(roomId, startTime, endTime)
       THEN /\ Respond("400", SlotUnavailable)
            /\ UNCHANGED <<bookings, notifications>>
       ELSE /\ Len(bookings) < MaxBookings
            /\ HasSpace(Len(supervisors) + 1)
            /\ bookings' = Append(bookings,
                                  newBooking(actor, roomId, startTime, endTime))
            /\ notifications' = notifications \o supervisorNotifications
                                \o <<createNotification(actor, "booking")>>
            /\ Respond("201", NoError)

\* ------------------------------------- PUT /api/bookings/:id/status (server)
PutBookingStatus(actor, bookingId, status) ==
    /\ backend = "db"
    /\ UNCHANGED <<rooms, handlers, backend, users, inflight, shiftStore, triggers>>
    /\ IF ~authorize({"supervisor"}, actor)
       THEN /\ Respond("403", NoPermission)
            /\ UNCHANGED <<bookings, notifications>>
       ELSE IF status \notin Statuses
       THEN /\ Respond("400", InvalidStatus)
            /\ UNCHANGED <<bookings, notifications>>
       ELSE IF bookingId \notin DOMAIN bookings
       THEN /\ Respond("404", BookingNotFound)
            /\ UNCHANGED <<bookings, notifications>>
       ELSE /\ HasSpace(1)
            /\ bookings' = [bookings EXCEPT ![bookingId].status = status]
            /\ notifications' =
                   Append(notifications,
                          createNotification(bookings[bookingId].userId, "booking"))
            /\ Respond("200", NoError)

\* --------------------------------------------- createBooking (Firestore)
\* The supervisor notifications are written from un-awaited forEach
\* callbacks: the first landed of them are stored before the awaited owner
\* notification, the others are still in flight when createBooking resolves.
FsCreateBooking(userId, roomId, startTime, endTime, landed) ==
    /\ backend = "firestore"
    /\ UNCHANGED <<rooms, handlers, backend, users, shiftStore, triggers>>
    /\ IF checkBookingConflicts(roomId, startTime, endTime)
       THEN /\ Respond("rejected", SlotUnavailable)
            /\ UNCHANGED <<bookings, notifications, inflight>>
       ELSE /\ Len(bookings) < MaxBookings
            /\ HasSpace(Len(supervisors) + 1)
            /\ landed \in 0..Len(supervisors)
            /\ bookings' = Append(bookings,
                                  newBooking(userId, roomId, startTime, endTime))
            /\ notifications' = notifications
                   \o SubSeq(supervisorNotifications, 1, landed)
                   \o <<createNotification(userId, "booking")>>
            /\ inflight' = inflight \o
                   SubSeq(supervisorNotifications, landed + 1, Len(supervisors))
            /\ Respond("resolved", NoError)

\* an in-flight addDoc reaches the notifications collection
CompleteWrite(k) ==
    /\ k \in DOMAIN inflight
    /\ notifications' = Append(notifications, inflight[k])
    /\ inflight' = SubSeq(inflight, 1, k - 1) \o SubSeq(inflight, k + 1, Len(inflight))
    /\ Respond("resolved", NoError)
    /\ UNCHANGED <<rooms, handlers, backend, users, bookings, shiftStore, triggers>>

\* ------------------------------------- createBooking, one await at a time
\* A request whose conflict check passed waits for its write in handlers;
\* between its steps the steps of other requests run. The server's steps
\* are those of POST /api/bookings over DatabaseStorage, whose awaits are
\* database round trips.
Handler(userId, roomId, startTime, endTime) ==
    [userId |-> userId, roomId |-> roomId, startTime |-> startTime,
     endTime |-> endTime, pc |-> "checked", bookingId |-> Missing, sent |-> 0]

\* the requests that passed the check and have not written their booking
awaitingWrite == SelectSeq(handlers, LAMBDA h : h.pc = "checked")

\* parse, getBookingsByRoom and the conflict test
BeginPostBooking(actor, roomId, startTime, endTime) ==
    /\ backend = "db"
    /\ UNCHANGED <<rooms, backend, users, bookings, notifications, inflight,
                   shiftStore, triggers>>
    /\ IF startTime = Missing \/ endTime = Missing
       THEN /\ Respond("400", ZodError)
            /\ UNCHANGED handlers
       ELSE IF hasConflict(roomId, startTime, endTime)
       THEN /\ Respond("400", SlotUnavailable)
            /\ UNCHANGED handlers
       ELSE /\ Len(bookings) + Len(awaitingWrite) < MaxBookings
            /\ handlers' = Append(handlers,
                                  Handler(actor, roomId, startTime, endTime))
            /\ UNCHANGED response

\* storage.createBooking that looks for a conflict once more and refuses
PersistBookingRechecks(k) ==
    /\ backend = "db"
    /\ k \in DOMAIN handlers
    /\ handlers[k].pc = "checked"
    /\ UNCHANGED <<rooms, backend, users, notifications, inflight, shiftStore, triggers>>
    /\ IF hasConflict(handlers[k].roomId, handlers[k].startTime,
                      handlers[k].endTime)
       THEN /\ Respond("400", SlotUnavailable)
            /\ handlers' = Remove(handlers, k)
            /\ UNCHANGED bookings
       ELSE /\ bookings' = Append(bookings,
                   newBooking(handlers[k].userId, handlers[k].roomId,
                              handlers[k].startTime, handlers[k].endTime))
            /\ handlers' = [handlers EXCEPT ![k].pc = "persisted",
                                            ![k].bookingId = Len(bookings) + 1]
            /\ UNCHANGED response

\* storage.createBooking, and updateBooking with the QR code
PersistBooking(k) ==
    /\ backend = "db"
    /\ k \in DOMAIN handlers
    /\ handlers[k].pc = "checked"
    /\ bookings' = Append(bookings,
           newBooking(handlers[k].userId, handlers[k].roomId,
                      handlers[k].startTime, handlers[k].endTime))
    /\ handlers' = [handlers EXCEPT ![k].pc = "persisted",
                                    ![k].bookingId = Len(bookings) + 1]
    /\ UNCHANGED <<rooms, backend, users, notifications, inflight, response,
                   shiftStore, triggers>>

\* the notification the request writes after sent of them
nextNotification(h) ==
    IF h.sent < Len(supervisors)
    THEN createNotification(supervisors[h.sent + 1], "booking")
    ELSE createNotification(h.userId, "booking")

\* one awaited storage.createNotification; the last one is followed by
\* res.status(201)
WriteNotification(k) ==
    /\ backend = "db"
    /\ k \in DOMAIN handlers
    /\ handlers[k].pc = "persisted"
    /\ notifications' = Append(notifications, nextNotification(handlers[k]))
    /\ IF handlers[k].sent = Len(supervisors)
       THEN /\ handlers' = Remove(handlers, k)
            /\ Respond("201", NoError)
       ELSE /\ handlers' = [handlers EXCEPT ![k].sent = handlers[k].sent + 1]
            /\ UNCHANGED response
    /\ UNCHANGED <<rooms, backend, users, bookings, inflight, shiftStore, triggers>>

\* a storage call that throws, answered by a catch block that deletes the
\* booking the request had stored
FailedWriteRollsBack(k) ==
    /\ backend = "db"
    /\ k \in DOMAIN handlers
    /\ handlers' = Remove(handlers, k)
    /\ bookings' = IF handlers[k].pc = "persisted"
                   THEN Remove(bookings, handlers[k].bookingId)
                   ELSE bookings
    /\ Respond("500", InternalError)
    /\ UNCHANGED <<rooms, backend, users, notifications, inflight, shiftStore,
                   triggers>>

\* a storage call that throws (createBooking, or a createNotification after
\* it): the catch block answers 500 and nothing else is done
FailedWrite(k) ==
    /\ backend = "db"
    /\ k \in DOMAIN handlers
    /\ handlers' = Remove(handlers, k)
    /\ Respond("500", InternalError)
    /\ UNCHANGED <<rooms, backend, users, bookings, notifications, inflight,
                   shiftStore, triggers>>

\* the Firestore createBooking up to its conflict check
FsBeginCreateBooking(userId, roomId, startTime, endTime) ==
    /\ backend = "firestore"
    /\ UNCHANGED <<rooms, backend, users, bookings, notifications, inflight,
                   shiftStore, triggers>>
    /\ IF checkBookingConflicts(roomId, startTime, endTime)
       THEN /\ Respond("rejected", SlotUnavailable)
            /\ UNCHANGED handlers
       ELSE /\ Len(bookings) + Len(awaitingWrite) < MaxBookings
            /\ handlers' = Append(handlers,
                                  Handler(userId, roomId, startTime, endTime))
            /\ UNCHANGED response

\* the Firestore createBooking from its addDoc on
FsFinishCreateBooking(k, landed) ==
    /\ backend = "firestore"
    /\ k \in DOMAIN handlers
    /\ landed \in 0..Len(supervisors)
    /\ bookings' = Append(bookings,
           newBooking(handlers[k].userId, handlers[k].roomId,
                      handlers[k].startTime, handlers[k].endTime))
    /\ notifications' = notifications
           \o SubSeq(supervisorNotifications, 1, landed)
           \o <<createNotification(handlers[k].userId, "booking")>>
    /\ inflight' = inflight \o
           SubSeq(supervisorNotifications, landed + 1, Len(supervisors))
    /\ handlers' = Remove(handlers, k)
    /\ Respond("resolved", NoError)
    /\ UNCHANGED <<rooms, backend, users, shiftStore, triggers>>

\* ----------------------------------------- updateBookingStatus (Firestore)
\* a document write hands the Cloud Functions one event, with the document
\* before and after the write
Event(kind, id, before, after) ==
    [kind |-> kind, id |-> id, before |-> before, after |-> after]

FsUpdateBookingStatus(bookingId, status) ==
    /\ backend = "firestore"
    /\ UNCHANGED <<rooms, handlers, backend, users, inflight, shiftStore>>
    /\ IF bookingId \notin DOMAIN bookings
       THEN /\ Respond("rejected", BookingNotFound)
            /\ UNCHANGED <<bookings, notifications, triggers>>
       ELSE /\ HasSpace(1)
            /\ Len(triggers) < MaxTriggers
            /\ bookings' = [bookings EXCEPT ![bookingId].status = status]
            /\ triggers' = Append(triggers,
                   Event("bookingUpdate", bookingId,
                         bookings[bookingId], bookings'[bookingId]))
            /\ notifications' =
                   Append(notifications,
                          createNotification(bookings[bookingId].userId, "booking"))
            /\ Respond("resolved", NoError)

\* ------------------------------------ onBookingStatusChange (Cloud Function)
\* startTime.toISOString().split('T')[0]: the day an instant falls on
SlotsPerDay == 2
DateOf(time) == time \div SlotsPerDay

\* the shifts of the booking's room and day whose hours hold its start
coveringShifts(booking) ==
    SelectSeq([i \in 1..Len(shifts) |-> i],
              LAMBDA i : /\ shifts[i].roomId = booking.roomId
                         /\ shifts[i].date = DateOf(booking.startTime)
                         /\ booking.startTime >= shifts[i].startTime
                         /\ booking.startTime < shifts[i].endTime)

\* what the function writes for one event
statusChangeNotifications(before, after) ==
    IF after.status # before.status
    THEN <<createNotification(after.userId, "booking")>>
         \o (IF after.status = "approved"
             THEN [k \in 1..Len(coveringShifts(after)) |->
                      createNotification(
                          shifts[coveringShifts(after)[k]].employeeId, "shift")]
             ELSE <<>>)
    ELSE <<>>

OnBookingStatusChange(k) ==
    /\ k \in DOMAIN triggers
    /\ triggers[k].kind = "bookingUpdate"
    /\ notifications' = notifications
           \o statusChangeNotifications(triggers[k].before, triggers[k].after)
    /\ triggers' = Remove(triggers, k)
    /\ UNCHANGED <<rooms, handlers, backend, users, bookings, inflight, response, shiftStore>>

\* ------------------------------------------------ POST /api/shifts (server)
\* the routes run over DatabaseStorage ("db") or MemStorage ("mem")
Express == backend \in {"db", "mem"}

newShift(employeeId, roomId, date, startTime, endTime) ==
    [employeeId |-> employeeId, roomId |-> roomId, date |-> date,
     startTime |-> startTime, endTime |-> endTime, isActive |-> TRUE]

\* storage.createTask: isCompleted false, completedAt null
createTask(shiftId, name, category) ==
    [shiftId |-> shiftId, name |-> name, category |-> category,
     isCompleted |-> FALSE, completedAt |-> Null]

\* the templates with isDefault, in stored order
defaultTemplates ==
    SelectSeq([i \in 1..Len(templates) |-> i],
              LAMBDA i : templates[i].isDefault)

\* one task per default template, name and category copied
defaultTasks(shiftId) ==
    [k \in 1..Len(defaultTemplates) |->
        createTask(shiftId, templates[defaultTemplates[k]].name,
                   templates[defaultTemplates[k]].category)]

HasTaskSpace(n) == Len(tasks) + Len(inflightTasks) + n <= MaxTasks

PostShift(actor, employeeId, roomId, date, startTime, endTime) ==
    /\ Express
    /\ UNCHANGED <<rooms, handlers, backend, users, bookings, inflight, templates,
                   inflightTasks, triggers>>
    /\ IF ~authorize({"supervisor"}, actor)
       THEN /\ Respond("403", NoPermission)
            /\ UNCHANGED <<shifts, tasks, notifications>>
       ELSE IF startTime = Missing
       THEN /\ Respond("400", ZodError)
            /\ UNCHANGED <<shifts, tasks, notifications>>
       ELSE IF employeeId \notin UserIds \/ users[employeeId].role # "employee"
       THEN /\ Respond("400", InvalidEmployee)
            /\ UNCHANGED <<shifts, tasks, notifications>>
       ELSE IF backend = "db" /\ roomId \notin RoomIds
       THEN \* shifts.room_id references rooms.id: the insert throws
            /\ Respond("500", InternalError)
            /\ UNCHANGED <<shifts, tasks, notifications>>
       ELSE /\ Len(shifts) < MaxShifts
            /\ HasTaskSpace(Len(defaultTemplates))
            /\ HasSpace(1)
            /\ shifts' = Append(shifts, newShift(employeeId, roomId, date,
                                                 startTime, endTime))
            /\ tasks' = tasks \o defaultTasks(Len(shifts) + 1)
            /\ notifications' =
                   Append(notifications, createNotification(employeeId, "shift"))
            /\ Respond("201", NoError)

\* ------------------------------------------------- createShift (Firestore)
\* The default tasks are written from un-awaited forEach callbacks: the first
\* landed of them are stored when createShift resolves, the others later.
FsCreateShift(employeeId, roomId, date, startTime, endTime, landed) ==
    /\ backend = "firestore"
    /\ Len(shifts) < MaxShifts
    /\ Len(triggers) < MaxTriggers
    /\ HasTaskSpace(Len(defaultTemplates))
    /\ HasSpace(1)
    /\ landed \in 0..Len(defaultTemplates)
    /\ shifts' = Append(shifts, newShift(employeeId, roomId, date,
                                         startTime, endTime))
    /\ triggers' = Append(triggers,
           Event("shiftCreate", Len(shifts) + 1, shifts'[Len(shifts) + 1],
                 shifts'[Len(shifts) + 1]))
    /\ tasks' = tasks \o SubSeq(defaultTasks(Len(shifts) + 1), 1, landed)
    /\ inflightTasks' = inflightTasks
           \o SubSeq(defaultTasks(Len(shifts) + 1), landed + 1,
                     Len(defaultTemplates))
    /\ notifications' =
           Append(notifications, createNotification(employeeId, "shift"))
    /\ Respond("resolved", NoError)
    /\ UNCHANGED <<rooms, handlers, backend, users, bookings, inflight, templates>>

\* an in-flight addDoc reaches the tasks collection
CompleteTaskWrite(k) ==
    /\ k \in DOMAIN inflightTasks
    /\ tasks' = Append(tasks, inflightTasks[k])
    /\ inflightTasks' = Remove(inflightTasks, k)
    /\ UNCHANGED <<rooms, handlers, backend, users, bookings, notifications, inflight,
                   response, shifts, templates, triggers>>

\* ------------------------------------------- onShiftCreate (Cloud Function)
OnShiftCreate(k) ==
    /\ k \in DOMAIN triggers
    /\ triggers[k].kind = "shiftCreate"
    /\ tasks' = tasks \o defaultTasks(triggers[k].id)
    /\ notifications' =
           Append(notifications,
                  createNotification(triggers[k].after.employeeId, "shift"))
    /\ triggers' = Remove(triggers, k)
    /\ UNCHANGED <<rooms, handlers, backend, users, bookings, inflight, response, shifts,
                   templates, inflightTasks>>

\* ------------------------------------------ a task write that throws
\* POST /api/shifts whose storage.createTask for the failing-th default
\* template throws: the shift and the tasks before it are stored, the
\* catch block answers 500 and the statements after the loop are skipped.
PostShiftTaskFails(actor, employeeId, roomId, date, startTime, endTime, failing) ==
    /\ Express
    /\ authorize({"supervisor"}, actor)
    /\ startTime # Missing
    /\ employeeId \in UserIds /\ users[employeeId].role = "employee"
    /\ ~(backend = "db" /\ roomId \notin RoomIds)
    /\ failing \in 1..Len(defaultTemplates)
    /\ Len(shifts) < MaxShifts
    /\ HasTaskSpace(Len(defaultTemplates))
    /\ shifts' = Append(shifts, newShift(employeeId, roomId, date,
                                         startTime, endTime))
    /\ tasks' = tasks \o SubSeq(defaultTasks(Len(shifts) + 1), 1, failing - 1)
    /\ Respond("500", InternalError)
    /\ UNCHANGED <<rooms, handlers, backend, users, bookings, notifications, inflight,
                   templates, inflightTasks, triggers>>

\* onShiftCreate one of whose tasks.add rejects: the other adds, already
\* started, land; Promise.all rejects and the function ends before the
\* notification
OnShiftCreateTaskFails(k, failing) ==
    /\ k \in DOMAIN triggers
    /\ triggers[k].kind = "shiftCreate"
    /\ failing \in 1..Len(defaultTemplates)
    /\ tasks' = tasks \o Remove(defaultTasks(triggers[k].id), failing)
    /\ triggers' = Remove(triggers, k)
    /\ UNCHANGED <<rooms, handlers, backend, users, bookings, notifications, inflight,
                   response, shifts, templates, inflightTasks>>

\* The Firestore createShift whose addDoc for the failing-th default
\* template rejects: the rejection stays inside the forEach callback, the
\* other tasks and the notification are written and createShift resolves.
FsCreateShiftTaskFails(employeeId, roomId, date, startTime, endTime, failing) ==
    /\ backend = "firestore"
    /\ Len(shifts) < MaxShifts
    /\ Len(triggers) < MaxTriggers
    /\ HasTaskSpace(Len(defaultTemplates))
    /\ HasSpace(1)
    /\ failing \in 1..Len(defaultTemplates)
    /\ shifts' = Append(shifts, newShift(employeeId, roomId, date,
                                         startTime, endTime))
    /\ triggers' = Append(triggers,
           Event("shiftCreate", Len(shifts) + 1, shifts'[Len(shifts) + 1],
                 shifts'[Len(shifts) + 1]))
    /\ tasks' = tasks \o Remove(defaultTasks(Len(shifts) + 1), failing)
    /\ notifications' =
           Append(notifications, createNotification(employeeId, "shift"))
    /\ Respond("resolved", NoError)
    /\ UNCHANGED <<rooms, handlers, backend, users, bookings, inflight, templates,
                   inflightTasks>>

\* ---------------------------------------------- PUT /api/shifts/:id (server)
\* storage.updateShift(shiftId, req.body): the fields of the body replace the
\* stored ones; a body may leave employeeId out
mergeShift(shift, body) ==
    [shift EXCEPT !.employeeId = IF body.employeeId = Missing
                                 THEN shift.employeeId ELSE body.employeeId,
                  !.isActive = body.isActive]

\* req.body.employeeId && req.body.employeeId !== shift.employeeId
employeeChanged(shift, body) ==
    body.employeeId # Missing /\ body.employeeId # shift.employeeId

\* PUT /api/shifts/:id that notifies the employee the shift is taken from
PutShiftNotifiesPrevious(actor, shiftId, body) ==
    /\ Express
    /\ UNCHANGED <<rooms, handlers, backend, users, bookings, inflight, tasks, templates,
                   inflightTasks, triggers>>
    /\ IF ~authorize({"supervisor"}, actor)
       THEN /\ Respond("403", NoPermission)
            /\ UNCHANGED <<shifts, notifications>>
       ELSE IF shiftId \notin DOMAIN shifts
       THEN /\ Respond("404", ShiftNotFound)
            /\ UNCHANGED <<shifts, notifications>>
       ELSE /\ shifts' = [shifts EXCEPT ![shiftId] = mergeShift(shifts[shiftId], body)]
            /\ IF employeeChanged(shifts[shiftId], body)
               THEN /\ HasSpace(1)
                    /\ notifications' =
                           Append(notifications,
                                  createNotification(shifts[shiftId].employeeId, "shift"))
               ELSE UNCHANGED notifications
            /\ Respond("200", NoError)

PutShift(actor, shiftId, body) ==
    /\ Express
    /\ UNCHANGED <<rooms, handlers, backend, users, bookings, inflight, tasks, templates,
                   inflightTasks, triggers>>
    /\ IF ~authorize({"supervisor"}, actor)
       THEN /\ Respond("403", NoPermission)
            /\ UNCHANGED <<shifts, notifications>>
       ELSE IF shiftId \notin DOMAIN shifts
       THEN /\ Respond("404", ShiftNotFound)
            /\ UNCHANGED <<shifts, notifications>>
       ELSE /\ shifts' = [shifts EXCEPT ![shiftId] = mergeShift(shifts[shiftId], body)]
            /\ IF employeeChanged(shifts[shiftId], body)
               THEN /\ HasSpace(1)
                    /\ notifications' =
                           Append(notifications,
                                  createNotification(body.employeeId, "shift"))
               ELSE UNCHANGED notifications
            /\ Respond("200", NoError)

\* -------------------------------------------------- updateShift (Firestore)
FsUpdateShift(shiftId, body) ==
    /\ backend = "firestore"
    /\ UNCHANGED <<rooms, handlers, backend, users, bookings, inflight, tasks, templates,
                   inflightTasks, triggers>>
    /\ IF shiftId \notin DOMAIN shifts
       THEN /\ Respond("rejected", ShiftNotFound)
            /\ UNCHANGED <<shifts, notifications>>
       ELSE /\ shifts' = [shifts EXCEPT ![shiftId] = mergeShift(shifts[shiftId], body)]
            /\ IF employeeChanged(shifts[shiftId], body)
               THEN /\ HasSpace(1)
                    /\ notifications' =
                           Append(notifications,
                                  createNotification(body.employeeId, "shift"))
               ELSE UNCHANGED notifications
            /\ Respond("resolved", NoError)

\* ---------------------------------------------- POST /api/checklist (server)
\* (a body without taskId stands for the two fields the route requires)
\* DatabaseStorage.updateTask with the route's { isCompleted, completedAt }
dbUpdateTask(task, isCompleted, now) ==
    [task EXCEPT !.isCompleted = isCompleted,
                 !.completedAt = IF isCompleted THEN now ELSE Null]

\* MemStorage.updateTask: completedAt is written last, from isCompleted alone
memUpdateTask(task, isCompleted, now) ==
    [task EXCEPT !.isCompleted = isCompleted,
                 !.completedAt = IF isCompleted THEN now ELSE task.completedAt]

\* POST /api/checklist that checks the shift exists, not whose it is
PostChecklistAnyEmployee(actor, taskId, isCompleted, now) ==
    /\ Express
    /\ UNCHANGED <<rooms, handlers, backend, users, bookings, notifications, inflight, shifts,
                   templates, inflightTasks, triggers>>
    /\ IF ~authorize({"employee"}, actor)
       THEN /\ Respond("403", NoPermission)
            /\ UNCHANGED tasks
       ELSE IF taskId = Missing
       THEN /\ Respond("400", ChecklistFieldsRequired)
            /\ UNCHANGED tasks
       ELSE IF taskId \notin DOMAIN tasks
       THEN /\ Respond("404", TaskNotFound)
            /\ UNCHANGED tasks
       ELSE IF tasks[taskId].shiftId \notin DOMAIN shifts
       THEN /\ Respond("403", NoTaskPermission)
            /\ UNCHANGED tasks
       ELSE /\ tasks' = [tasks EXCEPT ![taskId] =
                            IF backend = "mem"
                            THEN memUpdateTask(tasks[taskId], isCompleted, now)
                            ELSE dbUpdateTask(tasks[taskId], isCompleted, now)]
            /\ Respond("200", NoError)

PostChecklist(actor, taskId, isCompleted, now) ==
    /\ Express
    /\ UNCHANGED <<rooms, handlers, backend, users, bookings, notifications, inflight, shifts,
                   templates, inflightTasks, triggers>>
    /\ IF ~authorize({"employee"}, actor)
       THEN /\ Respond("403", NoPermission)
            /\ UNCHANGED tasks
       ELSE IF taskId = Missing
       THEN /\ Respond("400", ChecklistFieldsRequired)
            /\ UNCHANGED tasks
       ELSE IF taskId \notin DOMAIN tasks
       THEN /\ Respond("404", TaskNotFound)
            /\ UNCHANGED tasks
       ELSE IF \/ tasks[taskId].shiftId \notin DOMAIN shifts
               \/ shifts[tasks[taskId].shiftId].employeeId # actor
       THEN /\ Respond("403", NoTaskPermission)
            /\ UNCHANGED tasks
       ELSE /\ tasks' = [tasks EXCEPT ![taskId] =
                            IF backend = "mem"
                            THEN memUpdateTask(tasks[taskId], isCompleted, now)
                            ELSE dbUpdateTask(tasks[taskId], isCompleted, now)]
            /\ Respond("200", NoError)

\* --------------------------------------------------- updateTask (Firestore)
\* updateData = { ...taskData }, completedAt added when the task is marked
\* complete without one; updateDoc writes the fields of updateData
fsUpdateTask(task, data, now) ==
    [task EXCEPT !.isCompleted = data.isCompleted,
                 !.completedAt =
                     IF data.isCompleted /\ data.completedAt \in {Missing, Null}
                     THEN now
                     ELSE IF data.completedAt = Missing
                     THEN task.completedAt
                     ELSE data.completedAt]

FsUpdateTask(taskId, data, now) ==
    /\ backend = "firestore"
    /\ UNCHANGED <<rooms, handlers, backend, users, bookings, notifications, inflight, shifts,
                   templates, inflightTasks>>
    /\ IF taskId \notin DOMAIN tasks
       THEN /\ Respond("rejected", TaskNotFound)
            /\ UNCHANGED <<tasks, triggers>>
       ELSE /\ Len(triggers) < MaxTriggers
            /\ HasSpace(Len(supervisors))
            /\ tasks' = [tasks EXCEPT ![taskId] =
                            fsUpdateTask(tasks[taskId], data, now)]
            /\ triggers' = Append(triggers,
                   Event("taskUpdate", taskId, tasks[taskId], tasks'[taskId]))
            /\ Respond("resolved", NoError)

\* --------------------------------------------- onTaskUpdate (Cloud Function)
taskCompletionNotifications(before, after) ==
    IF ~before.isCompleted /\ after.isCompleted /\ after.shiftId \in DOMAIN shifts
    THEN [k \in 1..Len(supervisors) |->
             createNotification(supervisors[k], "system")]
    ELSE <<>>

OnTaskUpdate(k) ==
    /\ k \in DOMAIN triggers
    /\ triggers[k].kind = "taskUpdate"
    /\ notifications' = notifications
           \o taskCompletionNotifications(triggers[k].before, triggers[k].after)
    /\ triggers' = Remove(triggers, k)
    /\ UNCHANGED <<rooms, handlers, backend, users, bookings, inflight, response, shiftStore>>

\* ------------------------------------ PUT /api/notifications/:id/read (server)
\* PUT /api/notifications/:id/read that flips isRead
PutNotificationReadToggles(actor, notificationId) ==
    /\ Express
    /\ UNCHANGED <<rooms, handlers, backend, users, bookings, inflight, shiftStore, triggers>>
    /\ IF notificationId \notin DOMAIN notifications
       THEN /\ Respond("404", NotificationNotFound)
            /\ UNCHANGED notifications
       ELSE /\ notifications' =
                   [notifications EXCEPT ![notificationId].isRead =
                                            ~notifications[notificationId].isRead]
            /\ Respond("200", NoError)

PutNotificationRead(actor, notificationId) ==
    /\ Express
    /\ UNCHANGED <<rooms, handlers, backend, users, bookings, inflight, shiftStore, triggers>>
    /\ IF notificationId \notin DOMAIN notifications
       THEN /\ Respond("404", NotificationNotFound)
            /\ UNCHANGED notifications
       ELSE /\ notifications' =
                   [notifications EXCEPT ![notificationId].isRead = TRUE]
            /\ Respond("200", NoError)

\* ----------------------------------------- updateNotification (Firestore)
\* updateDoc(notificationRef, notificationData): the fields of the data
\* replace the stored ones
FsUpdateNotification(notificationId, data) ==
    /\ backend = "firestore"
    /\ UNCHANGED <<rooms, handlers, backend, users, bookings, inflight, shiftStore, triggers>>
    /\ IF notificationId \notin DOMAIN notifications
       THEN /\ Respond("rejected", NotificationNotFound)
            /\ UNCHANGED notifications
       ELSE /\ notifications' =
                   [notifications EXCEPT ![notificationId].isRead = data.isRead]
            /\ Respond("resolved", NoError)

\* ---------------------------------------------------- PUT /api/rooms/:id
\* storage.updateRoom(roomId, req.body): the route hands over the body as it
\* came, so a body may carry an id; the fields of the body replace the
\* stored ones
mergeRoom(room, body) ==
    [room EXCEPT !.id = IF body.id = Missing THEN room.id ELSE body.id,
                 !.isActive = body.isActive]

\* a booking or a shift row references the room
referenced(roomId) ==
    \/ \E i \in DOMAIN bookings : bookings[i].roomId = roomId
    \/ \E i \in DOMAIN shifts : shifts[i].roomId = roomId

RoomNotFound == "Room not found"

PutRoom(actor, roomId, body) ==
    /\ Express
    /\ UNCHANGED <<handlers, backend, users, bookings, notifications, inflight,
                   shiftStore, triggers>>
    /\ IF ~authorize({"supervisor"}, actor)
       THEN /\ Respond("403", NoPermission)
            /\ UNCHANGED rooms
       ELSE IF roomId \notin DOMAIN rooms
       THEN /\ Respond("404", RoomNotFound)
            /\ UNCHANGED rooms
       ELSE IF backend = "mem"
       THEN \* this.rooms.set(id, { ...room, ...roomData })
            /\ rooms' = [rooms EXCEPT ![roomId] = mergeRoom(rooms[roomId], body)]
            /\ Respond("200", NoError)
       ELSE IF /\ mergeRoom(rooms[roomId], body).id # roomId
               /\ \/ mergeRoom(rooms[roomId], body).id \in DOMAIN rooms
                  \/ referenced(roomId)
       THEN \* update ... set id: the primary key or a foreign key refuses
            /\ Respond("500", InternalError)
            /\ UNCHANGED rooms
       ELSE \* update rooms set ... where id = roomId: the row now lives
            \* under the id the body gave
            /\ rooms' = [k \in (DOMAIN rooms \ {roomId})
                                  \cup {mergeRoom(rooms[roomId], body).id} |->
                            IF k = mergeRoom(rooms[roomId], body).id
                            THEN mergeRoom(rooms[roomId], body)
                            ELSE rooms[k]]
            /\ Respond("200", NoError)

\* -------------------------------------------------- GET /api/notifications
\* The log is kept in creation order, so a notification's position stands
\* for its createdAt: a later position is a later createdAt.
Reverse(seq) == [i \in 1..Len(seq) |-> seq[Len(seq) + 1 - i]]

\* the ids of the user's notifications, oldest first
oldestFirst(userId) ==
    SelectSeq([k \in 1..Len(notifications) |-> k],
              LAMBDA k : notifications[k].userId = userId)

\* MemStorage sorts b.createdAt - a.createdAt, DatabaseStorage orders by
\* createdAt (ascending), the Firestore query orders by createdAt desc
getNotificationsByUser(userId) ==
    IF backend = "db" THEN oldestFirst(userId) ELSE Reverse(oldestFirst(userId))

GetNotifications(actor) ==
    /\ Express
    /\ response' = [status |-> "200", error |-> NoError,
                    body |-> getNotificationsByUser(actor)]
    /\ UNCHANGED <<rooms, handlers, backend, users, bookings, notifications, inflight,
                   shiftStore, triggers>>

FsGetNotificationsByUser(userId) ==
    /\ backend = "firestore"
    /\ response' = [status |-> "resolved", error |-> NoError,
                    body |-> getNotificationsByUser(userId)]
    /\ UNCHANGED <<rooms, handlers, backend, users, bookings, notifications, inflight,
                   shiftStore, triggers>>

\* ------------------------------------------------------------- Next
BodyTimes == Times \cup {Missing}
BodyStatuses == Statuses \cup {"bogus"}
BookingIds == 1..MaxBookings

Next ==
    \/ \E actor \in Bookers, roomId \in RoomIds,
          startTime \in BodyTimes, endTime \in Times :
          PostBooking(actor, roomId, startTime, endTime)
    \/ \E actor \in UserIds, bookingId \in BookingIds, status \in BodyStatuses :
          PutBookingStatus(actor, bookingId, status)
    \/ \E userId \in Bookers, roomId \in RoomIds,
          startTime \in Times, endTime \in Times, landed \in 0..Len(users) :
          FsCreateBooking(userId, roomId, startTime, endTime, landed)
    \/ \E k \in 1..MaxNotifications : CompleteWrite(k)
    \/ \E bookingId \in BookingIds, status \in Statuses :
          FsUpdateBookingStatus(bookingId, status)
    \/ \E k \in 1..MaxTriggers : OnBookingStatusChange(k)

Spec == Init /\ [][Next]_vars

\* ------------------------------------------- createBooking on a stored booking
\* The store after one booking was created and its status set once (or left
\* pending): the booking, and the notifications those two requests wrote.
\* createBooking requests are then handled until one of them is accepted.
StoredBookings ==
    {[newBooking(userId, roomId, startTime, endTime) EXCEPT !.status = status] :
        userId \in {i \in DOMAIN SeedUsers : SeedUsers[i].role = "player"},
        roomId \in RoomIds, startTime \in Times, endTime \in Times,
        status \in Statuses}

InitStored ==
    /\ backend \in {"db", "firestore"}
    /\ users = SeedUsers
    /\ bookings \in {<<b>> : b \in StoredBookings}
    /\ notifications =
           supervisorNotifications
           \o <<createNotification(bookings[1].userId, "booking")>>
           \o (IF bookings[1].status = "pending"
               THEN <<>>
               ELSE <<createNotification(bookings[1].userId, "booking")>>)
           \o (IF bookings[1].status # "pending" /\ backend = "firestore"
               THEN <<createNotification(bookings[1].userId, "booking")>>
               ELSE <<>>)
    /\ inflight = <<>>
    /\ response = [status |-> IF backend = "firestore" THEN "resolved"
                              ELSE IF bookings[1].status = "pending"
                              THEN "201" ELSE "200",
                   error |-> NoError]
    /\ shifts = <<>>
    /\ tasks = <<>>
    /\ templates = <<>>
    /\ inflightTasks = <<>>
    /\ triggers = <<>>
    /\ handlers = <<>>
    /\ rooms = SeedRooms

NextCreate ==
    \/ /\ Len(bookings) = 1
       /\ \E actor \in Bookers, roomId \in RoomIds,
             startTime \in BodyTimes, endTime \in Times :
             PostBooking(actor, roomId, startTime, endTime)
    \/ /\ Len(bookings) = 1
       /\ \E userId \in Bookers, roomId \in RoomIds,
             startTime \in Times, endTime \in Times, landed \in 0..Len(users) :
             FsCreateBooking(userId, roomId, startTime, endTime, landed)
    \/ \E k \in 1..MaxNotifications : CompleteWrite(k)

SpecCreate == InitStored /\ [][NextCreate]_vars

\* ------------------------------------- status changes on a stored booking
\* The store after a supervisor scheduled up to two shifts and a player
\* created one booking: the status of that booking is then set repeatedly.
Employees == {i \in DOMAIN StaffUsers : StaffUsers[i].role = "employee"}
Dates == {DateOf(t) : t \in Times}

StoredShifts ==
    {newShift(employeeId, roomId, date, startTime, endTime) :
        employeeId \in Employees, roomId \in RoomIds, date \in Dates,
        startTime \in Times, endTime \in Times}

InitStatus ==
    /\ backend \in {"db", "firestore"}
    /\ users = StaffUsers
    /\ bookings \in {<<b>> : b \in {c \in StoredBookings :
                                        /\ c.status = "pending"
                                        /\ c.startTime < c.endTime}}
    /\ shifts \in {<<>>} \cup {<<s>> : s \in {x \in StoredShifts :
                                                  x.startTime < x.endTime}}
    /\ notifications = supervisorNotifications
                       \o <<createNotification(bookings[1].userId, "booking")>>
                       \o [k \in 1..Len(shifts) |->
                              createNotification(shifts[k].employeeId, "shift")]
                       \o (IF backend = "firestore"
                           THEN [k \in 1..Len(shifts) |->
                                    createNotification(shifts[k].employeeId, "shift")]
                           ELSE <<>>)
    /\ inflight = <<>>
    /\ response = [status |-> IF backend = "firestore" THEN "resolved" ELSE "201",
                   error |-> NoError]
    /\ tasks = <<>>
    /\ templates = <<>>
    /\ inflightTasks = <<>>
    /\ triggers = <<>>
    /\ handlers = <<>>
    /\ rooms = SeedRooms

NextStatus ==
    \/ \E actor \in UserIds, bookingId \in BookingIds, status \in BodyStatuses :
          PutBookingStatus(actor, bookingId, status)
    \/ \E bookingId \in BookingIds, status \in Statuses :
          FsUpdateBookingStatus(bookingId, status)
    \/ \E k \in 1..MaxTriggers : OnBookingStatusChange(k)

SpecStatus == InitStatus /\ [][NextStatus]_vars

\* ------------------------------------------------- creating shifts
\* The template collection a run starts from: template k is named k; the
\* seeded ones are defaults, the ones created over the API are not.
TemplateStores ==
    UNION {[1..n -> [name : 1..MaxTemplates, category : Categories,
                     isDefault : BOOLEAN]] : n \in 0..MaxTemplates}

InitShift ==
    /\ backend \in {"db", "mem", "firestore"}
    /\ users = StaffUsers
    /\ templates \in {t \in TemplateStores : \A k \in DOMAIN t : t[k].name = k}
    /\ bookings = <<>>
    /\ notifications = <<>>
    /\ inflight = <<>>
    /\ response = [status |-> "none", error |-> NoError]
    /\ shifts = <<>>
    /\ tasks = <<>>
    /\ inflightTasks = <<>>
    /\ triggers = <<>>
    /\ handlers = <<>>
    /\ rooms = SeedRooms

\* the room ids a shift form may carry: the rooms and an id of no room
BodyRooms == RoomIds \cup {NumRooms + 1}

\* the shift form: one day, one slot, or a body without its start
NextShift ==
    \/ \E actor \in UserIds, employeeId \in UserIds, roomId \in BodyRooms,
          startTime \in {Missing, 0} :
          PostShift(actor, employeeId, roomId, DateOf(0), startTime, MaxTime)
    \/ \E employeeId \in UserIds, roomId \in BodyRooms,
          landed \in 0..MaxTemplates :
          FsCreateShift(employeeId, roomId, DateOf(0), 0, MaxTime, landed)
    \/ \E k \in 1..MaxTasks : CompleteTaskWrite(k)
    \/ \E k \in 1..MaxTriggers : OnShiftCreate(k)

SpecShift == InitShift /\ [][NextShift]_vars

\* the same requests, any of whose task writes may throw
NextShiftFail ==
    \/ NextShift
    \/ \E actor \in UserIds, employeeId \in UserIds, roomId \in RoomIds,
          failing \in 1..MaxTemplates :
          PostShiftTaskFails(actor, employeeId, roomId, DateOf(0), 0, MaxTime,
                             failing)
    \/ \E k \in 1..MaxTriggers, failing \in 1..MaxTemplates :
          OnShiftCreateTaskFails(k, failing)
    \/ \E employeeId \in UserIds, roomId \in RoomIds,
          failing \in 1..MaxTemplates :
          FsCreateShiftTaskFails(employeeId, roomId, DateOf(0), 0, MaxTime,
                                 failing)

SpecShiftFail == InitShift /\ [][NextShiftFail]_vars

\* ------------------------------------------------- working a checklist
\* the users the checklist runs start from: two supervisors, two employees
CrewUsers == <<[role |-> "supervisor"], [role |-> "supervisor"],
              [role |-> "employee"], [role |-> "employee"]>>

\* The store after a shift with one or two default tasks was created for
\* one of the employees; checklist requests follow.
InitTask ==
    /\ backend \in {"db", "mem", "firestore"}
    /\ users = CrewUsers
    /\ templates \in {t \in TemplateStores :
                         /\ Len(t) >= 1
                         /\ \A k \in DOMAIN t : t[k].name = k /\ t[k].isDefault}
    /\ bookings = <<>>
    /\ shifts \in {<<newShift(employeeId, 1, DateOf(0), 0, MaxTime)>> :
                      employeeId \in {i \in DOMAIN CrewUsers :
                                         CrewUsers[i].role = "employee"}}
    /\ tasks = defaultTasks(1)
                \o (IF backend = "firestore" THEN defaultTasks(1) ELSE <<>>)
    /\ notifications =
           <<createNotification(shifts[1].employeeId, "shift")>>
           \o (IF backend = "firestore"
               THEN <<createNotification(shifts[1].employeeId, "shift")>>
               ELSE <<>>)
    /\ inflight = <<>>
    /\ response = [status |-> IF backend = "firestore" THEN "resolved" ELSE "201",
                   error |-> NoError]
    /\ inflightTasks = <<>>
    /\ triggers = <<>>
    /\ handlers = <<>>
    /\ rooms = SeedRooms

TaskData == [isCompleted : BOOLEAN, completedAt : {Missing, Null}]

NextTask ==
    \/ \E actor \in UserIds, taskId \in (1..MaxTasks) \cup {Missing},
          isCompleted \in BOOLEAN, now \in Times :
          PostChecklist(actor, taskId, isCompleted, now)
    \/ \E taskId \in 1..MaxTasks, data \in TaskData, now \in Times :
          FsUpdateTask(taskId, data, now)
    \/ \E k \in 1..MaxTriggers : OnTaskUpdate(k)

SpecTask == InitTask /\ [][NextTask]_vars

\* The checklist route alone, on a shift with one task.
InitChecklist ==
    /\ InitTask
    /\ backend \in {"db", "mem"}
    /\ Len(templates) = 1

NextChecklist ==
    \E actor \in UserIds, taskId \in (1..MaxTasks) \cup {Missing},
       isCompleted \in BOOLEAN, now \in Times :
       PostChecklist(actor, taskId, isCompleted, now)

SpecChecklist == InitChecklist /\ [][NextChecklist]_vars

\* ------------------------------------------------- reassigning a shift
\* The store after one shift was created; updateShift requests follow.
ShiftBodies ==
    [employeeId : DOMAIN StaffUsers \cup {Missing}, isActive : BOOLEAN]

InitReassign ==
    /\ backend \in {"db", "mem", "firestore"}
    /\ users = StaffUsers
    /\ templates = <<>>
    /\ bookings = <<>>
    /\ shifts \in {<<newShift(employeeId, roomId, DateOf(0), 0, MaxTime)>> :
                      employeeId \in Employees, roomId \in RoomIds}
    /\ notifications =
           <<createNotification(shifts[1].employeeId, "shift")>>
           \o (IF backend = "firestore"
               THEN <<createNotification(shifts[1].employeeId, "shift")>>
               ELSE <<>>)
    /\ inflight = <<>>
    /\ response = [status |-> IF backend = "firestore" THEN "resolved" ELSE "201",
                   error |-> NoError]
    /\ tasks = <<>>
    /\ inflightTasks = <<>>
    /\ triggers = <<>>
    /\ handlers = <<>>
    /\ rooms = SeedRooms

NextReassign ==
    \/ \E actor \in UserIds, shiftId \in 1..MaxShifts, body \in ShiftBodies :
          PutShift(actor, shiftId, body)
    \/ \E shiftId \in 1..MaxShifts, body \in ShiftBodies :
          FsUpdateShift(shiftId, body)

SpecReassign == InitReassign /\ [][NextReassign]_vars

\* ------------------------------------------------- reading notifications
\* The store after one booking was created; its status is set and the
\* notifications are marked read, over the route or, on Firestore, by
\* updateNotification(id, { isRead: true }).
InitRead ==
    /\ backend \in {"db", "mem", "firestore"}
    /\ users = SeedUsers
    /\ bookings = <<newBooking(1, 1, 0, 1)>>
    /\ notifications = supervisorNotifications
                       \o <<createNotification(bookings[1].userId, "booking")>>
    /\ inflight = <<>>
    /\ response = [status |-> IF backend = "firestore" THEN "resolved" ELSE "201",
                   error |-> NoError]
    /\ shifts = <<>>
    /\ tasks = <<>>
    /\ templates = <<>>
    /\ inflightTasks = <<>>
    /\ triggers = <<>>
    /\ handlers = <<>>
    /\ rooms = SeedRooms

NextRead ==
    \/ \E actor \in UserIds, notificationId \in 1..(MaxNotifications + 1) :
          PutNotificationRead(actor, notificationId)
    \/ \E notificationId \in 1..(MaxNotifications + 1) :
          FsUpdateNotification(notificationId, [isRead |-> TRUE])
    \/ \E actor \in UserIds, bookingId \in BookingIds, status \in BodyStatuses :
          PutBookingStatus(actor, bookingId, status)
    \/ \E bookingId \in BookingIds, status \in Statuses :
          FsUpdateBookingStatus(bookingId, status)
    \/ \E k \in 1..MaxTriggers : OnBookingStatusChange(k)

SpecRead == InitRead /\ [][NextRead]_vars

\* ------------------------------------------------- listing notifications
\* The store of InitRead; the booking's status is set, which adds to the
\* owner's notifications, and the users list theirs.
NextList ==
    \/ \E actor \in UserIds : GetNotifications(actor)
    \/ \E userId \in UserIds : FsGetNotificationsByUser(userId)
    \/ \E actor \in UserIds, bookingId \in BookingIds, status \in BodyStatuses :
          PutBookingStatus(actor, bookingId, status)
    \/ \E bookingId \in BookingIds, status \in Statuses :
          FsUpdateBookingStatus(bookingId, status)
    \/ \E k \in 1..MaxTriggers : OnBookingStatusChange(k)

SpecList == InitRead /\ [][NextList]_vars

\* ------------------------------------------- concurrent createBooking
\* From the empty store, booking requests for one room are handled one
\* await at a time, so that the steps of several requests interleave and a
\* storage call of the server may throw.
RaceRoom == 1
RaceStarts == {Missing, 0, 1}
RaceEnds == {1, MaxTime}

NextRace ==
    \/ \E actor \in Bookers, startTime \in RaceStarts, endTime \in RaceEnds :
          BeginPostBooking(actor, RaceRoom, startTime, endTime)
    \/ \E k \in 1..MaxBookings : PersistBooking(k)
    \/ \E k \in 1..MaxBookings : WriteNotification(k)
    \/ \E k \in 1..MaxBookings : FailedWrite(k)
    \/ \E userId \in Bookers,
          startTime \in RaceStarts \ {Missing}, endTime \in RaceEnds :
          FsBeginCreateBooking(userId, RaceRoom, startTime, endTime)
    \/ \E k \in 1..MaxBookings, landed \in 0..Len(users) :
          FsFinishCreateBooking(k, landed)
    \/ \E k \in 1..MaxNotifications : CompleteWrite(k)

SpecRace == Init /\ [][NextRace]_vars

\* ------------------------------------------------- updating rooms
\* The seeded rooms and users; the supervisor's room form, or any other
\* client of the route, sends bodies with or without an id.
RoomBodies == [id : {Missing} \cup (1..(NumRooms + 1)), isActive : BOOLEAN]

InitRooms ==
    /\ backend \in {"db", "mem"}
    /\ users = SeedUsers
    /\ bookings = <<>>
    /\ notifications = <<>>
    /\ inflight = <<>>
    /\ response = [status |-> "none", error |-> NoError]
    /\ shifts = <<>>
    /\ tasks = <<>>
    /\ templates = <<>>
    /\ inflightTasks = <<>>
    /\ triggers = <<>>
    /\ handlers = <<>>
    /\ rooms = SeedRooms

NextRooms ==
    \E actor \in UserIds, roomId \in 1..(NumRooms + 1), body \in RoomBodies :
        PutRoom(actor, roomId, body)

SpecRooms == InitRooms /\ [][NextRooms]_vars

TypeOK ==
    /\ backend \in {"db", "mem", "firestore"}
    /\ Len(bookings) <= MaxBookings
    /\ Len(notifications) + Len(inflight)
           <= MaxNotifications + MaxTriggers * (1 + MaxShifts)
    /\ Len(triggers) <= MaxTriggers
    /\ Len(shifts) <= MaxShifts
    /\ Len(tasks) + Len(inflightTasks) <= MaxTasks + MaxTriggers * MaxTemplates
    /\ Len(handlers) <= MaxBookings

\* ------------------------------------------------- vocabulary of the claims
ActiveStatuses == {"pending", "approved", "completed"}
ReleasedStatuses == {"rejected", "cancelled"}
TerminalStatuses == {"completed", "rejected", "cancelled"}

\* half-open intervals [aStart, aEnd) and [bStart, bEnd) overlap
Overlaps(aStart, aEnd, bStart, bEnd) == aStart < bEnd /\ aEnd > bStart

\* the step is a createBooking request for [startTime, endTime) on roomId
CreateStep(userId, roomId, startTime, endTime) ==
    \/ PostBooking(userId, roomId, startTime, endTime)
    \/ \E landed \in 0..Len(users) :
           FsCreateBooking(userId, roomId, startTime, endTime, landed)

\* the request was accepted: the booking is stored as pending
Accepted(userId, roomId, startTime, endTime) ==
    /\ bookings' = Append(bookings, newBooking(userId, roomId, startTime, endTime))
    /\ response'.status \in {"201", "resolved"}

NothingWritten ==
    /\ bookings' = bookings
    /\ notifications' = notifications
    /\ inflight' = inflight

\* C1: no two distinct bookings of one room that are both pending, approved
\* or completed overlap, after any sequence of POST /api/bookings and
\* PUT /api/bookings/:id/status requests.
NoOverlappingActiveBookings ==
    backend = "db" =>
        \A i \in DOMAIN bookings, j \in DOMAIN bookings :
            (/\ i # j
             /\ bookings[i].roomId = bookings[j].roomId
             /\ bookings[i].status \in ActiveStatuses
             /\ bookings[j].status \in ActiveStatuses)
            => ~Overlaps(bookings[i].startTime, bookings[i].endTime,
                         bookings[j].startTime, bookings[j].endTime)

\* C2: when the conflict check of createBooking finds a conflicting booking,
\* the request fails with the slot-unavailable error and neither a booking
\* nor a notification is written.
ConflictWritesNothing ==
    [][\A roomId \in RoomIds, startTime \in Times, endTime \in Times :
          /\ (backend = "db" /\ hasConflict(roomId, startTime, endTime))
             => \A userId \in Bookers :
                    PostBooking(userId, roomId, startTime, endTime)
                    => (/\ response' = [status |-> "400", error |-> SlotUnavailable]
                        /\ NothingWritten)
          /\ (backend = "firestore"
              /\ checkBookingConflicts(roomId, startTime, endTime))
             => \A userId \in Bookers, landed \in 0..Len(supervisors) :
                    FsCreateBooking(userId, roomId, startTime, endTime, landed)
                    => (/\ response' = [status |-> "rejected", error |-> SlotUnavailable]
                        /\ NothingWritten)]_vars

\* a request has just been refused as a conflict with a stored booking
ConflictRefused ==
    /\ response.error = SlotUnavailable
    /\ \E i \in DOMAIN bookings : bookings[i].status \notin ReleasedStatuses

\* what the conflict check of the running backend says about one booking
ReportsConflict(booking, start, end) ==
    IF backend = "db"
    THEN conflictsWith(booking, start, end)
    ELSE fsConflictsWith(booking, booking.roomId, start, end)

\* C3: for a candidate with start < end and a stored booking with
\* start < end that is neither rejected nor cancelled, the conflict check
\* reports a conflict exactly when the two half-open intervals overlap.
CheckMatchesOverlap ==
    \A i \in DOMAIN bookings :
        (/\ bookings[i].startTime < bookings[i].endTime
         /\ bookings[i].status \notin ReleasedStatuses)
        => \A start \in Times, end \in Times :
               start < end =>
                   (ReportsConflict(bookings[i], start, end)
                    <=> Overlaps(start, end,
                                 bookings[i].startTime, bookings[i].endTime))

\* C4: a candidate that abuts an active booking of the room, and overlaps no
\* active booking of the room, is accepted.
AbuttingAccepted ==
    [][\A userId \in UserIds, roomId \in RoomIds, startTime \in Times, endTime \in Times :
          (/\ CreateStep(userId, roomId, startTime, endTime)
           /\ \E i \in DOMAIN bookings :
                  /\ bookings[i].roomId = roomId
                  /\ bookings[i].status \in ActiveStatuses
                  /\ (startTime = bookings[i].endTime
                      \/ endTime = bookings[i].startTime)
           /\ \A i \in DOMAIN bookings :
                  (bookings[i].roomId = roomId
                   /\ bookings[i].status \in ActiveStatuses)
                  => ~Overlaps(startTime, endTime,
                               bookings[i].startTime, bookings[i].endTime))
          => Accepted(userId, roomId, startTime, endTime)]_vars

\* C5: the overlap verdict is symmetric: a candidate interval tested against
\* a stored interval gives the verdict of the stored interval tested as the
\* candidate against it.
ConflictSymmetric ==
    \A i \in DOMAIN bookings, start \in Times, end \in Times :
        TimeOverlap(start, end, bookings[i].startTime, bookings[i].endTime)
        = TimeOverlap(bookings[i].startTime, bookings[i].endTime, start, end)

\* C6: once a booking is rejected or cancelled, a createBooking of the same
\* room for the same or an overlapping interval is accepted when no pending,
\* approved or completed booking of the room overlaps it.
ReleasedSlotAccepted ==
    [][\A userId \in UserIds, roomId \in RoomIds, startTime \in Times, endTime \in Times :
          (/\ CreateStep(userId, roomId, startTime, endTime)
           /\ \E i \in DOMAIN bookings :
                  /\ bookings[i].roomId = roomId
                  /\ bookings[i].status \in ReleasedStatuses
                  /\ \/ (startTime = bookings[i].startTime
                         /\ endTime = bookings[i].endTime)
                     \/ Overlaps(startTime, endTime,
                                 bookings[i].startTime, bookings[i].endTime)
           /\ \A i \in DOMAIN bookings :
                  (bookings[i].roomId = roomId
                   /\ bookings[i].status \in ActiveStatuses)
                  => ~Overlaps(startTime, endTime,
                               bookings[i].startTime, bookings[i].endTime))
          => Accepted(userId, roomId, startTime, endTime)]_vars

\* C7: a createBooking with endTime <= startTime is refused as a validation
\* error and writes neither a booking nor a notification.
DegenerateIntervalRefused ==
    [][\A userId \in UserIds, roomId \in RoomIds, startTime \in Times, endTime \in Times :
          (CreateStep(userId, roomId, startTime, endTime) /\ endTime <= startTime)
          => (response'.error = ZodError /\ NothingWritten)]_vars

\* C8: a booking that is completed, rejected or cancelled keeps its status.
TerminalStatusKept ==
    [][\A i \in DOMAIN bookings :
          bookings[i].status \in TerminalStatuses
          => bookings'[i].status = bookings[i].status]_vars

\* C9: the player who owns a pending or approved booking cancels it: the
\* status request succeeds and the booking is cancelled.
OwnerCancels ==
    [][\A actor \in UserIds, bookingId \in DOMAIN bookings :
          (/\ PutBookingStatus(actor, bookingId, "cancelled")
           /\ users[actor].role = "player"
           /\ bookings[bookingId].userId = actor
           /\ bookings[bookingId].status \in {"pending", "approved"})
          => (/\ response'.status = "200"
              /\ bookings'[bookingId].status = "cancelled")]_vars

\* C10: when createBooking reports success, the notifications it added are
\* one of type booking per supervisor and one of type booking for the owner,
\* and nothing else.
BookingNotificationsWritten ==
    [][\A userId \in UserIds, roomId \in RoomIds, startTime \in Times, endTime \in Times :
          (/\ CreateStep(userId, roomId, startTime, endTime)
           /\ response'.status \in {"201", "resolved"})
          => /\ Len(notifications') >= Len(notifications)
             /\ SubSeq(notifications', 1, Len(notifications)) = notifications
             /\ \A k \in (Len(notifications) + 1)..Len(notifications') :
                    notifications'[k].type = "booking"
             /\ \A u \in UserIds :
                    Cardinality({k \in (Len(notifications) + 1)..Len(notifications') :
                                    notifications'[k].userId = u})
                    = (IF users[u].role = "supervisor" THEN 1 ELSE 0)
                      + (IF u = userId THEN 1 ELSE 0)]_vars

\* ------------------------------------------ notifications an operation causes
\* what the Cloud Function handling a queued event writes
triggerWrites(event) ==
    CASE event.kind = "bookingUpdate" ->
             statusChangeNotifications(event.before, event.after)
      [] event.kind = "shiftCreate" ->
             <<createNotification(event.after.employeeId, "shift")>>
      [] event.kind = "taskUpdate" ->
             taskCompletionNotifications(event.before, event.after)

RECURSIVE dueNotifications(_)
dueNotifications(events) ==
    IF events = <<>> THEN <<>>
    ELSE triggerWrites(Head(events)) \o dueNotifications(Tail(events))

\* every notification written so far or owed by an operation that has run:
\* stored, in flight, or to be written by a trigger the operation fired
Caused == notifications \o inflight \o dueNotifications(triggers)

Count(seq, userId, type) ==
    Cardinality({k \in DOMAIN seq : seq[k].userId = userId /\ seq[k].type = type})

\* C11: a step that changes a booking's status causes exactly one
\* notification addressed to the booking's owner, the writes of the update
\* itself and of the trigger it fires counted together.
StatusChangeNotifiesOwnerOnce ==
    [][\A i \in DOMAIN bookings :
          bookings'[i].status # bookings[i].status
          => Count(Caused', bookings[i].userId, "booking")
             = Count(Caused, bookings[i].userId, "booking") + 1]_vars

\* the shift is in the booking's room, on the day the booking starts, and its
\* hours hold the booking's start
Covers(shift, booking) ==
    /\ shift.roomId = booking.roomId
    /\ shift.date = DateOf(booking.startTime)
    /\ shift.startTime <= booking.startTime
    /\ booking.startTime < shift.endTime

\* C12: a step that makes a booking approved causes, for every user, as many
\* notifications of type shift as there are shifts of that employee covering
\* the booking: one per matching shift, none when no shift matches.
ApprovalNotifiesCoveringShifts ==
    [][\A i \in DOMAIN bookings :
          (bookings'[i].status = "approved" /\ bookings[i].status # "approved")
          => \A u \in UserIds :
                 Count(Caused', u, "shift")
                 = Count(Caused, u, "shift")
                   + Cardinality({k \in DOMAIN shifts :
                                     /\ Covers(shifts[k], bookings[i])
                                     /\ shifts[k].employeeId = u})]_vars

\* the tasks written so far or owed by an operation that has run
RECURSIVE dueTasks(_)
dueTasks(events) ==
    IF events = <<>> THEN <<>>
    ELSE (IF Head(events).kind = "shiftCreate"
          THEN defaultTasks(Head(events).id) ELSE <<>>)
         \o dueTasks(Tail(events))

CausedTasks == tasks \o inflightTasks \o dueTasks(triggers)

\* C13: a step that creates a shift causes exactly one task of that shift
\* per default template (name and category copied, not completed, no
\* completedAt) and no other task of that shift, the writes of the create
\* operation and of the trigger it fires counted together.
ShiftGetsOneTaskPerDefault ==
    [][Len(shifts') = Len(shifts) + 1
       => /\ \A t \in DOMAIN templates :
                 templates[t].isDefault
                 => Cardinality({k \in DOMAIN CausedTasks' :
                        CausedTasks'[k] =
                            [shiftId |-> Len(shifts'), name |-> templates[t].name,
                             category |-> templates[t].category,
                             isCompleted |-> FALSE, completedAt |-> Null]}) = 1
          /\ Cardinality({k \in DOMAIN CausedTasks' :
                              CausedTasks'[k].shiftId = Len(shifts')})
             = Cardinality({t \in DOMAIN templates : templates[t].isDefault})]_vars

\* C14: a step that creates a shift causes exactly one notification: of type
\* shift, addressed to the assigned employee.
ShiftNotifiesEmployeeOnce ==
    [][Len(shifts') = Len(shifts) + 1
       => Caused' = Caused
             \o <<[userId |-> shifts'[Len(shifts')].employeeId,
                   type |-> "shift", isRead |-> FALSE]>>]_vars

\* C19: an updateShift that changes the employee of a shift writes exactly
\* one notification, of type shift and addressed to the new employee; any
\* other updateShift request writes none.  (Every step of the specification
\* is an updateShift request.)
ReassignNotifiesNewEmployee ==
    [][IF \E i \in DOMAIN shifts : shifts'[i].employeeId # shifts[i].employeeId
       THEN \A i \in DOMAIN shifts :
                shifts'[i].employeeId # shifts[i].employeeId
                => notifications' = Append(notifications,
                       [userId |-> shifts'[i].employeeId, type |-> "shift",
                        isRead |-> FALSE])
       ELSE notifications' = notifications]_vars

\* a shift has just been handed to another employee
ShiftReassigned ==
    /\ Len(shifts) = 1
    /\ response.status \in {"200", "resolved"}
    /\ Len(notifications) > (IF backend = "firestore" THEN 2 ELSE 1)
    /\ notifications[Len(notifications)].userId = shifts[1].employeeId
    /\ notifications[1].userId # shifts[1].employeeId

\* C15: the employee of the shift completes an incomplete task and the task
\* gets a completedAt; the employee then un-completes it and completedAt is
\* null again, over DatabaseStorage and over MemStorage.
ToggleSetsAndClearsCompletedAt ==
    [][\A actor \in UserIds, taskId \in DOMAIN tasks, now \in Times :
          /\ (/\ PostChecklist(actor, taskId, TRUE, now)
              /\ response'.status = "200"
              /\ ~tasks[taskId].isCompleted)
             => tasks'[taskId].completedAt # Null
          /\ (/\ PostChecklist(actor, taskId, FALSE, now)
              /\ response'.status = "200"
              /\ tasks[taskId].isCompleted)
             => tasks'[taskId].completedAt = Null]_vars

\* C16: every task has a completedAt exactly when it is completed.
CompletedAtIffCompleted ==
    \A k \in DOMAIN tasks : (tasks[k].completedAt # Null) <=> tasks[k].isCompleted

\* C17: a step that takes a task from not completed to completed causes
\* exactly one notification of type system per supervisor and nothing else;
\* any other task update causes no notification.
CompletionNotifiesSupervisors ==
    [][tasks' # tasks /\ Len(tasks') = Len(tasks)
       => IF \E k \in DOMAIN tasks : ~tasks[k].isCompleted /\ tasks'[k].isCompleted
          THEN /\ Len(Caused') = Len(Caused) + Len(supervisors)
               /\ \A u \in UserIds :
                      Count(Caused', u, "system")
                      = Count(Caused, u, "system")
                        + (IF users[u].role = "supervisor" THEN 1 ELSE 0)
          ELSE Caused' = Caused]_vars

\* C18: a checklist request of an employee who is not the employee of the
\* task's shift is answered 403 and leaves the task as it was.
OtherEmployeeRefused ==
    [][\A actor \in UserIds, taskId \in DOMAIN tasks :
          (/\ users[actor].role = "employee"
           /\ tasks[taskId].shiftId \in DOMAIN shifts
           /\ shifts[tasks[taskId].shiftId].employeeId # actor)
          => \A isCompleted \in BOOLEAN, now \in Times :
                 PostChecklist(actor, taskId, isCompleted, now)
                 => (/\ response' = [status |-> "403", error |-> NoTaskPermission]
                     /\ tasks' = tasks)]_vars

\* the other employee has just been refused on a task that exists
OtherEmployeeWasRefused ==
    /\ response = [status |-> "403", error |-> NoTaskPermission]
    /\ tasks # <<>>
    /\ \E u \in UserIds : users[u].role = "employee" /\ shifts[1].employeeId # u

OnlyRecipientMarksRead ==
    [][\A actor \in UserIds, notificationId \in DOMAIN notifications :
          /\ actor # notifications[notificationId].userId
          /\ PutNotificationRead(actor, notificationId)
          => notifications'[notificationId] = notifications[notificationId]]_vars

\* the list holds exactly the user's notifications, each once, newest first
NewestFirstOf(list, userId) ==
    /\ {list[i] : i \in DOMAIN list}
           = {k \in DOMAIN notifications : notifications[k].userId = userId}
    /\ \A i, j \in DOMAIN list : i < j => list[i] > list[j]

\* C22: on every backend the list a user is given holds exactly that user's
\* stored notifications, from the newest to the oldest.
ListedNewestFirst ==
    [][\A u \in UserIds :
          GetNotifications(u) \/ FsGetNotificationsByUser(u)
          => NewestFirstOf(response'.body, u)]_vars

\* C23: a shift form naming a user who is not an employee, or a room that
\* does not exist, is refused and no shift, task or notification is written.
BadShiftFormWritesNothing ==
    [][\A actor \in UserIds, employeeId \in UserIds, roomId \in BodyRooms :
          /\ users[employeeId].role # "employee" \/ roomId \notin RoomIds
          /\ PostShift(actor, employeeId, roomId, DateOf(0), 0, MaxTime)
          => /\ response'.status # "201"
             /\ UNCHANGED <<shifts, tasks, notifications>>]_vars

\* C24: every stored shift is assigned to an existing user whose role is
\* employee.
ShiftEmployeeIsEmployee ==
    \A k \in DOMAIN shifts :
        /\ shifts[k].employeeId \in UserIds
        /\ users[shifts[k].employeeId].role = "employee"

\* the booking a waiting request writes
bookingOf(h) == newBooking(h.userId, h.roomId, h.startTime, h.endTime)

\* the conflict check of the request's backend, on the store as it is now
conflictsNow(h) ==
    IF backend = "firestore"
    THEN checkBookingConflicts(h.roomId, h.startTime, h.endTime)
    ELSE hasConflict(h.roomId, h.startTime, h.endTime)

\* C25: nothing serialises the conflict check and the write: the write of a
\* request that passed the check stores its booking even when a conflicting
\* booking was persisted after the check.
CheckedRequestIsPersisted ==
    [][\A k \in DOMAIN handlers :
          /\ PersistBooking(k) \/ \E landed \in 0..Len(users) :
                                     FsFinishCreateBooking(k, landed)
          /\ conflictsNow(handlers[k])
          => bookings' = Append(bookings, bookingOf(handlers[k]))]_vars

\* two requests were accepted and their overlapping pending bookings of one
\* room are both stored
OverlappingBookingsPersisted ==
    /\ handlers = <<>>
    /\ response.status \in {"201", "resolved"}
    /\ \E i, j \in DOMAIN bookings :
          /\ i < j
          /\ bookings[i].roomId = bookings[j].roomId
          /\ bookings[i].status = "pending" /\ bookings[j].status = "pending"
          /\ bookings[i].startTime < bookings[i].endTime
          /\ bookings[j].startTime < bookings[j].endTime
          /\ Overlaps(bookings[i].startTime, bookings[i].endTime,
                      bookings[j].startTime, bookings[j].endTime)

\* C26: a storage call that throws after the booking was stored leaves the
\* booking stored, no step removes or alters a stored booking, and a booking
\* notification is written only by a request whose booking is stored.
FailedNotificationKeepsBooking ==
    [][/\ \A k \in DOMAIN handlers :
              FailedWrite(k) /\ handlers[k].pc = "persisted"
              => /\ bookings' = bookings
                 /\ bookings[handlers[k].bookingId] = bookingOf(handlers[k])
       /\ \A i \in DOMAIN bookings :
              i \in DOMAIN bookings' /\ bookings'[i] = bookings[i]
       /\ backend = "db" /\ notifications' # notifications
          => \E k \in DOMAIN handlers :
                 /\ handlers[k].pc = "persisted"
                 /\ handlers[k].bookingId \in DOMAIN bookings
                 /\ bookings[handlers[k].bookingId] = bookingOf(handlers[k])
                 /\ notifications' =
                        Append(notifications, nextNotification(handlers[k]))]_vars

\* a request was answered 500 and its booking is stored with fewer
\* notifications than a creation writes
BookingKeptWithoutNotifications ==
    /\ backend = "db"
    /\ handlers = <<>>
    /\ response.status = "500"
    /\ bookings # <<>>
    /\ Len(notifications) < Len(bookings) * (Len(supervisors) + 1)

\* C27: a shift creation one of whose task writes fails still writes the
\* shift notification of the assigned employee, on the server and in the
\* onShiftCreate trigger.
TaskFailureStillNotifies ==
    [][/\ \A actor \in UserIds, employeeId \in UserIds, roomId \in RoomIds,
             failing \in 1..MaxTemplates :
             PostShiftTaskFails(actor, employeeId, roomId, DateOf(0), 0,
                                MaxTime, failing)
             => /\ Len(shifts') = Len(shifts) + 1
                /\ Count(notifications', employeeId, "shift")
                      = Count(notifications, employeeId, "shift") + 1
       /\ \A k \in DOMAIN triggers, failing \in 1..MaxTemplates :
             OnShiftCreateTaskFails(k, failing)
             => Count(notifications', triggers[k].after.employeeId, "shift")
                  = Count(notifications, triggers[k].after.employeeId, "shift") + 1]_vars

\* C28: for every room and candidate interval, the server route's check,
\* the Firestore client's check and the calendar's slot test say the same
\* about the stored bookings, completed ones included.
ConflictChecksAgree ==
    \A roomId \in RoomIds, start \in Times, end \in Times :
        /\ hasConflict(roomId, start, end)
              <=> checkBookingConflicts(roomId, start, end)
        /\ hasConflict(roomId, start, end) <=> isBooked(roomId, start, end)

\* C29: when the Firestore createShift resolves, one task per default
\* template of the new shift is stored and none of its task writes is in
\* flight or lost.
CreateShiftAwaitsItsTasks ==
    [][\A employeeId \in UserIds, roomId \in BodyRooms :
          /\ \/ \E landed \in 0..MaxTemplates :
                   FsCreateShift(employeeId, roomId, DateOf(0), 0, MaxTime,
                                 landed)
             \/ \E failing \in 1..MaxTemplates :
                   FsCreateShiftTaskFails(employeeId, roomId, DateOf(0), 0,
                                          MaxTime, failing)
          /\ response'.status = "resolved"
          => /\ tasks' = tasks \o defaultTasks(Len(shifts'))
             /\ inflightTasks' = inflightTasks]_vars

\* C30: after every step each stored room carries the id it is stored
\* under, so ids are unique, and a room stored under an id stays stored
\* under it.
IdsNeverChange ==
    [][/\ \A k \in DOMAIN rooms' : rooms'[k].id = k
       /\ DOMAIN rooms \subseteq DOMAIN rooms']_vars
====
